---- MODULE Spec2Model ----
(***************************************************************************)
(* Model of the discovery-and-registry core of LogViewer (gol):            *)
(*   pkg/files.go      the parser of remote specs, the pattern expander,   *)
(*                     the file prober, the stats engine, GetFileInfos and *)
(*                     UniqueFileInfos;                                    *)
(*   frontend/main.go  main and setFilePaths;                              *)
(*   gol.go            Gol.NewAPIHandler.                                  *)
(* A Go string is a sequence of one-character strings, a file's content a  *)
(* sequence of byte values.                                                *)
(*                                                                         *)
(* Specifications:                                                         *)
(*   SpecParse   StringToSSHPathConfig on generated remote specs           *)
(*   SpecUnique  UniqueFileInfos on generated lists                        *)
(*   SpecProbe   IsReadableFile and FileStats on one file of any content   *)
(*   SpecInfos   GetFileInfos on one local or remote pattern               *)
(*   Spec        start-up, the Watchers and the requests of one process    *)
(* UpdateGlobalFilePaths, WatchFilePaths and NewSession are not part of    *)
(* the files above; they follow the design document.                       *)
(***************************************************************************)
EXTENDS Integers, Sequences, FiniteSets, TLC

VARIABLES
    HOME,       \* os.Getenv("HOME")
    input,      \* the argument s of StringToSSHPathConfig
    tokens,     \* the words input was assembled from
    config,     \* what StringToSSHPathConfig returned for input
    fileInfos,  \* the argument of UniqueFileInfos
    unique,     \* what UniqueFileInfos returned for fileInfos
    world,      \* the local file system and the remote hosts
    GlobalPipeTmpFilePath,  \* the temp file of the captured pipe, "" if none
    probed,     \* the file name IsReadableFile and FileStats were called with
    probe,      \* what IsReadableFile returned for probed
    stats,      \* what FileStats returned for probed
    args,       \* the arguments GetFileInfos is called with
    result,     \* what GetFileInfos returned for args
    pc,         \* position of the call under study
    entry,      \* how the process was started: main, or a program using Gol
    osArgs,     \* os.Args[1:]
    f,          \* the Flags of main: filePaths, sshPaths, limit
    g,          \* the GolOptions of a program using Gol: FilePaths
    GlobalFilePaths,  \* the published registry
    pcCaller,   \* position of the thread running main or calling NewAPIHandler
    sshIdx,     \* the remote specs setFilePaths has gone through
    staged,     \* the list being built by UpdateGlobalFilePaths on that thread
    calls,      \* the calls of Gol.NewAPIHandler so far
    watchers,   \* the goroutines running WatchFilePaths
    seen,       \* the registry as the last request read it
    firstBuilt  \* the first build of the registry has been published

parseVars == <<input, tokens, config>>
uniqueVars == <<fileInfos, unique>>
envVars == <<world, GlobalPipeTmpFilePath>>
probeVars == <<probed, probe, stats>>
infosVars == <<args, result>>
procVars ==
    <<entry, osArgs, f, g, GlobalFilePaths, pcCaller, sshIdx, staged, calls, watchers, seen,
      firstBuilt>>

vars == <<HOME, parseVars, uniqueVars, envVars, probeVars, infosVars, pc, procVars>>

-----------------------------------------------------------------------------
(* Bounds *)

MaxTokens == 3
MaxInfos == 4
MaxContent == 4
MaxFiles == 3
MaxLimit == 3
MaxSpecs == 2
MaxHandlers == 2

-----------------------------------------------------------------------------
(* Go strings *)

\* s[from:] of Go, 0-based from
Drop(s, n) == SubSeq(s, n + 1, Len(s))
\* s[:n] of Go
Take(s, n) == SubSeq(s, 1, n)

IsSpace(c) == c \in {" ", "\t", "\n"}

HasPrefix(s, p) == Len(s) >= Len(p) /\ Take(s, Len(p)) = p

TrimPrefix(s, p) == IF HasPrefix(s, p) THEN Drop(s, Len(p)) ELSE s

\* strings.Fields: the maximal runs of non-space characters, in order
RECURSIVE FieldsFrom(_, _, _)
FieldsFrom(s, cur, acc) ==
    IF s = <<>>
    THEN IF cur = <<>> THEN acc ELSE Append(acc, cur)
    ELSE IF IsSpace(Head(s))
         THEN FieldsFrom(Tail(s), <<>>, IF cur = <<>> THEN acc ELSE Append(acc, cur))
         ELSE FieldsFrom(Tail(s), Append(cur, Head(s)), acc)

Fields(s) == FieldsFrom(s, <<>>, <<>>)

\* strings.Split(s, sep) for a one-character separator
RECURSIVE SplitFrom(_, _, _, _)
SplitFrom(s, sep, cur, acc) ==
    IF s = <<>>
    THEN Append(acc, cur)
    ELSE IF Head(s) = sep
         THEN SplitFrom(Tail(s), sep, <<>>, Append(acc, cur))
         ELSE SplitFrom(Tail(s), sep, Append(cur, Head(s)), acc)

Split(s, sep) == SplitFrom(s, sep, <<>>, <<>>)

PasswordPrefix == <<"p", "a", "s", "s", "w", "o", "r", "d", "=">>
PrivateKeyPrefix == <<"p", "r", "i", "v", "a", "t", "e", "_", "k", "e", "y", "=">>
DefaultPort == <<"2", "2">>
DefaultKeySuffix == <<"/", ".", "s", "s", "h", "/", "i", "d", "_", "r", "s", "a">>

-----------------------------------------------------------------------------
(* StringToSSHPathConfig *)

NoConfig(msg) ==
    [err |-> msg, User |-> <<>>, Host |-> <<>>, Port |-> <<>>,
     Password |-> <<>>, PrivateKeyPath |-> <<>>, FilePath |-> <<>>]

\* the loop over parts[1:]: the optional parts and the file path
RECURSIVE ScanParts(_, _)
ScanParts(parts, c) ==
    IF parts = <<>>
    THEN c
    ELSE LET part == Head(parts) IN
         ScanParts(Tail(parts),
            IF HasPrefix(part, PasswordPrefix)
            THEN [c EXCEPT !.Password = TrimPrefix(part, PasswordPrefix)]
            ELSE IF HasPrefix(part, PrivateKeyPrefix)
                 THEN [c EXCEPT !.PrivateKeyPath = TrimPrefix(part, PrivateKeyPrefix)]
                 ELSE [c EXCEPT !.FilePath = part])

PortOf(userHost) == IF Len(userHost) = 2 THEN userHost[2] ELSE DefaultPort

\* a variant that accepts any first part holding an '@'
BadUserHostPort_AtLeastOne(userHostPort) == Len(userHostPort) < 2

\* len(userHostPort) != 2
BadUserHostPort(userHostPort) == Len(userHostPort) # 2

StringToSSHPathConfig(str, home) ==
    LET parts == Fields(str) IN
    IF Len(parts) < 2
    THEN NoConfig("format")
    ELSE LET userHostPort == Split(parts[1], "@") IN
         IF BadUserHostPort(userHostPort)
         THEN NoConfig("userhost")
         ELSE LET userHost == Split(userHostPort[2], ":")
                  c0 == [err |-> "", User |-> userHostPort[1], Host |-> userHost[1],
                         Port |-> PortOf(userHost),
                         Password |-> <<>>,
                         PrivateKeyPath |-> home \o DefaultKeySuffix,
                         FilePath |-> <<>>]
                  c1 == ScanParts(Tail(parts), c0)
              IN IF c1.FilePath = <<>> THEN NoConfig("nopath") ELSE c1

-----------------------------------------------------------------------------
(* The inputs of the parser *)

Homes == {<<>>, <<"/", "r">>}

FirstTokens ==
    { <<"u", "@", "h">>, <<"u", "@", "h", ":", "7">>, <<"u", "@", "h", ":">>,
      <<"u", "@", "h", ":", "7", ":", "8">>, <<"u", "h">>, <<"u", "@", "@", "h">>,
      <<"@">>, <<"/", "a">> }

RestTokens ==
    { <<"/", "a">>, <<"/", "b">>,
      PasswordPrefix \o <<"x">>, PasswordPrefix \o <<"y">>, PasswordPrefix,
      PrivateKeyPrefix \o <<"k">>, PrivateKeyPrefix \o <<"/", "a">> }

TokenLists ==
    {<<>>} \cup
    UNION { { <<first>> \o r : first \in FirstTokens, r \in [1..n -> RestTokens] } : n \in 0..(MaxTokens - 1) }

Separators == { <<" ">>, <<" ", "\t">> }

RECURSIVE Join(_, _)
Join(ts, sep) ==
    IF ts = <<>> THEN <<>>
    ELSE IF Len(ts) = 1 THEN ts[1]
         ELSE ts[1] \o sep \o Join(Tail(ts), sep)

Idle == NoConfig("idle")

UniqueIdle == fileInfos = <<>> /\ unique = <<>>
ParseIdle == input = <<>> /\ tokens = <<>> /\ config = Idle
NoWorld == [expand |-> <<>>, file |-> <<>>, keys |-> {}, remote |-> <<>>]
NoCall == [err |-> "idle"]
ProbeIdle == probed = <<>> /\ probe = NoCall /\ stats = NoCall
EnvIdle == world = NoWorld /\ GlobalPipeTmpFilePath = <<>>
InfosIdle == args = NoCall /\ result = <<>>
ProcIdle ==
    /\ entry = "none" /\ osArgs = <<>> /\ f = <<>> /\ g = <<>> /\ GlobalFilePaths = <<>>
    /\ pcCaller = "none" /\ sshIdx = 0 /\ staged = <<>> /\ calls = 0
    /\ watchers = <<>> /\ seen = <<>> /\ firstBuilt = FALSE

InitParse ==
    /\ ProcIdle
    /\ HOME \in Homes
    /\ UniqueIdle
    /\ EnvIdle
    /\ ProbeIdle
    /\ InfosIdle
    /\ tokens \in TokenLists
    /\ \E sep \in Separators, lead \in {<<>>, <<" ">>}, trail \in {<<>>, <<"\n">>} :
          input = lead \o Join(tokens, sep) \o trail
    /\ config = Idle
    /\ pc = "parse"

Parse ==
    /\ pc = "parse"
    /\ config' = StringToSSHPathConfig(input, HOME)
    /\ pc' = "parsed"
    /\ UNCHANGED <<HOME, input, tokens, uniqueVars, envVars, probeVars, infosVars, procVars>>

NextParse == Parse

SpecParse == InitParse /\ [][NextParse]_vars

-----------------------------------------------------------------------------
(* FileInfo and UniqueFileInfos *)

TypeFile == "file"
TypeSSH == "ssh"
TypeStdin == "stdin"

NoHost == <<>>

FileInfo(path, lines, size, type, host) ==
    [FilePath |-> path, LinesCount |-> lines, FileSize |-> size, Type |-> type, Host |-> host]

\* the eq of UniqueFileInfos
SameKey(a, b) == a.FilePath = b.FilePath /\ a.Type = b.Type /\ a.Host = b.Host

\* slices.CompactFunc: each run of consecutive equal elements is replaced
\* by its first element
RECURSIVE CompactFrom(_, _, _)
CompactFrom(s, k, acc) ==
    IF k > Len(s)
    THEN acc
    ELSE CompactFrom(s, k + 1, IF SameKey(s[k], s[k - 1]) THEN acc ELSE Append(acc, s[k]))

CompactFunc(s) == IF Len(s) < 2 THEN s ELSE CompactFrom(s, 2, <<s[1]>>)

UniqueFileInfos(infos) == CompactFunc(infos)

SamplePaths == { <<"/", "a">>, <<"/", "b">> }
SampleHost == <<"h">>

SampleInfos ==
    { FileInfo(p, n, n, TypeFile, NoHost) : p \in SamplePaths, n \in {0, 1} }
    \cup { FileInfo(<<"/", "a">>, n, n, TypeSSH, SampleHost) : n \in {0, 1} }

InitUnique ==
    /\ ProcIdle
    /\ HOME = <<>>
    /\ ParseIdle
    /\ EnvIdle
    /\ ProbeIdle
    /\ InfosIdle
    /\ fileInfos \in UNION { [1..n -> SampleInfos] : n \in 0..MaxInfos }
    /\ unique = <<>>
    /\ pc = "unique"

Unique ==
    /\ pc = "unique"
    /\ unique' = UniqueFileInfos(fileInfos)
    /\ pc' = "uniqued"
    /\ UNCHANGED <<HOME, parseVars, fileInfos, envVars, probeVars, infosVars, procVars>>

NextUnique == Unique

SpecUnique == InitUnique /\ [][NextUnique]_vars

Key(r) == <<r.FilePath, r.Type, r.Host>>
KeysOf(s) == { Key(s[i]) : i \in 1..Len(s) }
FirstPos(s, k) == CHOOSE i \in 1..Len(s) : Key(s[i]) = k /\ \A j \in 1..(i - 1) : Key(s[j]) # k

\* C1: UniqueFileInfos returns exactly one entry per distinct
\* (FilePath, Type, Host) of its input, also when equal triples are not
\* adjacent, and in the order of the first occurrences.
C1_OnePerTripleFirstSeen ==
    pc = "uniqued" =>
        /\ \A i, j \in 1..Len(unique) : Key(unique[i]) = Key(unique[j]) => i = j
        /\ KeysOf(unique) = KeysOf(fileInfos)
        /\ \A i, j \in 1..Len(unique) :
              i < j => FirstPos(fileInfos, Key(unique[i])) < FirstPos(fileInfos, Key(unique[j]))

\* what the code does: no two neighbours of the result share a triple
C1_NoEqualNeighbours ==
    pc = "uniqued" =>
        /\ \A i \in 1..(Len(unique) - 1) : Key(unique[i]) # Key(unique[i + 1])
        /\ KeysOf(unique) = KeysOf(fileInfos)

-----------------------------------------------------------------------------
(* Files: local ones, and remote ones read over a session *)

\* world.file[path]            a local file: [kind, content], kind one of
\*                             "file", "dir" (opens, cannot be read),
\*                             "denied" (cannot be opened), "longline" (a
\*                             file holding a line above the scanner's 1 MiB)
\* world.expand[pattern]       what the local expansion of a pattern finds
\* world.keys                  the private key files that can be read
\* world.remote[host]          a host: [up, port, password, key, ls, file]

BufSize == 512

GzipMagic == <<31, 139>>
\* stands for the ten-byte header of a gzip stream (ID1, ID2, CM = 8, ...);
\* the bytes after it stand for the stream, stored uncompressed
GzipHeader == <<31, 139, 8>>

NoSSH == [Host |-> <<>>, Port |-> <<>>, User |-> <<>>, Password |-> <<>>, PrivateKeyPath |-> <<>>]

\* file.Read(buffer): the first len(buffer) bytes at most
ReadUpTo(content, n) == IF Len(content) <= n THEN content ELSE SubSeq(content, 1, n)

IsGzip(buffer) ==
    Len(buffer) >= 2 /\ buffer[1] = GzipMagic[1] /\ buffer[2] = GzipMagic[2]

\* gzip.NewReader on a file: fails unless the header is a gzip header
GzipOpens(content) == Len(content) >= Len(GzipHeader) /\ Take(content, Len(GzipHeader)) = GzipHeader
Gunzip(content) == Drop(content, Len(GzipHeader))

\* utf8.Valid, for one- and two-byte sequences
RECURSIVE Utf8Valid(_)
Utf8Valid(b) ==
    IF b = <<>> THEN TRUE
    ELSE IF b[1] < 128 THEN Utf8Valid(Tail(b))
    ELSE IF b[1] >= 194 /\ b[1] <= 223 /\ Len(b) >= 2 /\ b[2] >= 128 /\ b[2] <= 191
         THEN Utf8Valid(Drop(b, 2))
         ELSE FALSE

\* sshConnect: the key file is read whenever a key path is set, then the
\* host is dialled with the password and the key
sshConnect(cfg) ==
    IF cfg.PrivateKeyPath # <<>> /\ cfg.PrivateKeyPath \notin world.keys
    THEN "key"
    ELSE IF cfg.Host \notin DOMAIN world.remote
         THEN "dial"
         ELSE LET h == world.remote[cfg.Host] IN
              IF ~h.up \/ cfg.Port # h.port
              THEN "dial"
              ELSE IF \/ cfg.Password # <<>> /\ cfg.Password = h.password
                      \/ cfg.PrivateKeyPath # <<>> /\ cfg.PrivateKeyPath = h.key
                   THEN ""
                   ELSE "auth"

NewSession(cfg) == sshConnect(cfg)

NoFile(err) == [err |-> err, kind |-> "none", content |-> <<>>]

osOpen(filename) ==
    IF filename \notin DOMAIN world.file \/ world.file[filename].kind = "denied"
    THEN NoFile("open")
    ELSE [err |-> "", kind |-> world.file[filename].kind, content |-> world.file[filename].content]

\* "cat " + filename on the host, its output written to a new temp file; a
\* cat without operand copies the session's empty standard input
sshOpenFile(filename, cfg) ==
    IF NewSession(cfg) # ""
    THEN NoFile(NewSession(cfg))
    ELSE LET files == world.remote[cfg.Host].file IN
         IF filename = <<>>
         THEN [err |-> "", kind |-> "file", content |-> <<>>]
         ELSE IF filename \notin DOMAIN files \/ files[filename].kind \in {"denied", "dir"}
              THEN NoFile("cat")
              ELSE [err |-> "", kind |-> files[filename].kind, content |-> files[filename].content]

OpenFile(filename, isRemote, cfg) ==
    IF isRemote THEN sshOpenFile(filename, cfg) ELSE osOpen(filename)

\* reader tells which reader inspected the content: "gzip", "raw", or "none"
\* when the call returned before choosing one
Probed(ok, err, reader) == [ok |-> ok, err |-> err, reader |-> reader]

IsReadableFile(filename, isRemote, cfg, checkUTF8) ==
    LET file == OpenFile(filename, isRemote, cfg) IN
    IF file.err # "" THEN Probed(FALSE, file.err, "none")
    ELSE IF file.kind # "dir" /\ Len(file.content) = 0 THEN Probed(TRUE, "", "none")
    ELSE IF file.kind = "dir" THEN Probed(FALSE, "read", "none")
    ELSE LET buffer == ReadUpTo(file.content, BufSize) IN
         IF IsGzip(buffer)
         THEN IF ~GzipOpens(file.content)
              THEN Probed(FALSE, "gzip", "gzip")
              ELSE LET data == ReadUpTo(Gunzip(file.content), BufSize) IN
                   Probed(checkUTF8 => Utf8Valid(data), "", "gzip")
         ELSE Probed(checkUTF8 => Utf8Valid(buffer), "", "raw")

\* the 512-byte buffer of detectMimeType after file.Read: the bytes read,
\* the rest left zero
SniffBuffer(content) ==
    [i \in 1..BufSize |-> IF i <= Len(content) THEN content[i] ELSE 0]

\* http.DetectContentType, as far as FileStats tells its results apart: the
\* gzip signature is the three bytes 1f 8b 08 at the start of the data
DetectContentType(buffer) ==
    IF buffer[1] = 31 /\ buffer[2] = 139 /\ buffer[3] = 8
    THEN "application/x-gzip"
    ELSE "application/octet-stream"

detectMimeType(file) ==
    IF file.kind = "dir" THEN [mime |-> "", err |-> "read"]
    ELSE IF Len(file.content) = 0 THEN [mime |-> "", err |-> "EOF"]
    ELSE [mime |-> DetectContentType(SniffBuffer(file.content)), err |-> ""]

\* the lines bufio.ScanLines finds: one per newline, and a last one when the
\* data does not end in a newline
CountLines(data) ==
    Cardinality({ i \in 1..Len(data) : data[i] = 10 })
        + (IF data # <<>> /\ data[Len(data)] # 10 THEN 1 ELSE 0)

Stats(lines, size, err, reader) ==
    [lines |-> lines, size |-> size, err |-> err, reader |-> reader]

FileStats(filePath, isRemote, cfg) ==
    LET file == OpenFile(filePath, isRemote, cfg) IN
    IF file.err # "" THEN Stats(0, 0, file.err, "none")
    ELSE LET sniff == detectMimeType(file) IN
         IF sniff.err # "" THEN Stats(0, 0, sniff.err, "none")
         ELSE LET gz == sniff.mime = "application/x-gzip"
                  reader == IF gz THEN "gzip" ELSE "raw"
              IN IF gz /\ ~GzipOpens(file.content) THEN Stats(0, 0, "gzip", reader)
                 ELSE IF file.kind = "longline" THEN Stats(0, 0, "toolong", reader)
                 ELSE Stats(CountLines(IF gz THEN Gunzip(file.content) ELSE file.content),
                            Len(file.content), "", reader)

-----------------------------------------------------------------------------
(* The prober and the stats engine on one file *)

Bytes == {31, 139, 8, 97, 10, 255}

Contents == UNION { [1..n -> Bytes] : n \in 0..MaxContent }

ThePath == <<"/", "a">>
TheHost == <<"h">>
TheKey == <<"/", "k">>
ThePassword == <<"x">>

TheSSH ==
    [Host |-> TheHost, Port |-> DefaultPort, User |-> <<"u">>,
     Password |-> ThePassword, PrivateKeyPath |-> TheKey]

Remote(up, ls, files) ==
    [up |-> up, port |-> DefaultPort, password |-> ThePassword, key |-> TheKey,
     ls |-> ls, file |-> files]

OneFileWorld(st) ==
    [expand |-> <<>>, file |-> (ThePath :> st), keys |-> {TheKey},
     remote |-> (TheHost :> Remote(TRUE, <<>>, (ThePath :> st)))]

InitProbe ==
    /\ ProcIdle
    /\ HOME = <<>>
    /\ ParseIdle
    /\ UniqueIdle
    /\ InfosIdle
    /\ ProbeIdle
    /\ GlobalPipeTmpFilePath = <<>>
    /\ \/ \E c \in Contents : world = OneFileWorld([kind |-> "file", content |-> c])
       \/ \E k \in {"dir", "denied", "longline"} :
             world = OneFileWorld([kind |-> k, content |-> <<97>>])
    /\ pc = "probe"

CallIsReadableFile ==
    /\ pc = "probe"
    /\ \E isRemote \in BOOLEAN, checkUTF8 \in BOOLEAN :
          /\ probed' = [name |-> ThePath, isRemote |-> isRemote, checkUTF8 |-> checkUTF8]
          /\ probe' = IsReadableFile(ThePath, isRemote, IF isRemote THEN TheSSH ELSE NoSSH, checkUTF8)
    /\ pc' = "stats"
    /\ UNCHANGED <<HOME, parseVars, uniqueVars, envVars, infosVars, stats, procVars>>

CallFileStats ==
    /\ pc = "stats"
    /\ stats' = FileStats(probed.name, probed.isRemote, IF probed.isRemote THEN TheSSH ELSE NoSSH)
    /\ pc' = "done"
    /\ UNCHANGED <<HOME, parseVars, uniqueVars, envVars, infosVars, probed, probe, procVars>>

NextProbe == CallIsReadableFile \/ CallFileStats

SpecProbe == InitProbe /\ [][NextProbe]_vars

TheFile == world.file[ThePath]

\* C9: IsReadableFile reads a file through the gzip decompressor exactly when
\* FileStats does, for every content.
C9_SameCompressionDecision ==
    (pc = "done" /\ probe.reader # "none" /\ stats.reader # "none") =>
        probe.reader = stats.reader

\* where the two differ: the probe looks at two bytes, the sniffing at three
C9_DecisionsAgreeOnHeader ==
    (pc = "done" /\ probe.reader # "none" /\ stats.reader # "none"
        /\ (Len(TheFile.content) >= 3 => TheFile.content[3] = 8)
        /\ Len(TheFile.content) # 2) =>
        probe.reader = stats.reader

-----------------------------------------------------------------------------
(* The pattern expander and GetFileInfos *)

RECURSIVE TrimLeft(_)
TrimLeft(s) == IF s # <<>> /\ IsSpace(Head(s)) THEN TrimLeft(Tail(s)) ELSE s

RECURSIVE TrimRight(_)
TrimRight(s) ==
    IF s # <<>> /\ IsSpace(s[Len(s)]) THEN TrimRight(SubSeq(s, 1, Len(s) - 1)) ELSE s

TrimSpace(s) == TrimRight(TrimLeft(s))

Listed(err, paths) == [err |-> err, paths |-> paths]

\* a variant that goes on with what ls printed when the command failed
sshFilesByPattern_IgnoreRunError(pattern, cfg) ==
    IF NewSession(cfg) # ""
    THEN Listed(NewSession(cfg), <<>>)
    ELSE LET ls == world.remote[cfg.Host].ls IN
         IF pattern \notin DOMAIN ls
         THEN Listed("", Split(TrimSpace(<<>>), "\n"))
         ELSE Listed("", Split(TrimSpace(ls[pattern].out), "\n"))

\* "ls " + pattern on the host; ls fails when the pattern names nothing
sshFilesByPattern(pattern, cfg) ==
    IF NewSession(cfg) # ""
    THEN Listed(NewSession(cfg), <<>>)
    ELSE LET ls == world.remote[cfg.Host].ls IN
         IF pattern \notin DOMAIN ls \/ ls[pattern].err
         THEN Listed("ls", <<>>)
         ELSE Listed("", Split(TrimSpace(ls[pattern].out), "\n"))

IsDirEntry(path) == path \in DOMAIN world.file /\ world.file[path].kind = "dir"

FilesByPattern(pattern, isRemote, cfg) ==
    IF isRemote THEN sshFilesByPattern(pattern, cfg)
    ELSE IF pattern \notin DOMAIN world.expand
    THEN Listed("", <<>>)
    ELSE LET e == world.expand[pattern] IN
         IF e.isDir
         THEN IF e.err THEN Listed("walk", <<>>)
              ELSE Listed("", SelectSeq(e.entries, LAMBDA path : ~IsDirEntry(path)))
         ELSE IF e.err THEN Listed("glob", <<>>)
              ELSE Listed("", e.entries)

\* a variant that cuts the list one entry too late
Truncate_OneMore(filePaths, limit) ==
    IF Len(filePaths) > limit + 1 THEN Take(filePaths, limit + 1) ELSE filePaths

\* if len(filePaths) > limit { filePaths = filePaths[:limit] }
Truncate(filePaths, limit) ==
    IF Len(filePaths) > limit THEN Take(filePaths, limit) ELSE filePaths

\* a variant that drops the candidate on every error of FileStats
StatsOutcome_EOFDrops(s) == [keep |-> s.err = "", lines |-> s.lines, size |-> s.size]

\* what GetFileInfos makes of the result of FileStats: end of file is an
\* empty file, any other error drops the candidate
StatsOutcome(s) ==
    IF s.err = "" THEN [keep |-> TRUE, lines |-> s.lines, size |-> s.size]
    ELSE IF s.err = "EOF" THEN [keep |-> TRUE, lines |-> 0, size |-> 0]
    ELSE [keep |-> FALSE, lines |-> 0, size |-> 0]

TypeOf(filePath, isRemote) ==
    IF filePath = GlobalPipeTmpFilePath THEN TypeStdin
    ELSE IF isRemote THEN TypeSSH ELSE TypeFile

HostOf(isRemote, cfg) == IF isRemote THEN cfg.Host ELSE NoHost

\* the loop over filePaths
RECURSIVE InfosLoop(_, _, _, _, _)
InfosLoop(filePaths, k, acc, isRemote, cfg) ==
    IF k > Len(filePaths)
    THEN acc
    ELSE LET filePath == filePaths[k]
             isText == IsReadableFile(filePath, isRemote, cfg, FALSE)
         IN IF isText.err # "" THEN <<>>
            ELSE IF ~isText.ok THEN InfosLoop(filePaths, k + 1, acc, isRemote, cfg)
            ELSE LET s == StatsOutcome(FileStats(filePath, isRemote, cfg)) IN
                 IF ~s.keep THEN InfosLoop(filePaths, k + 1, acc, isRemote, cfg)
                 ELSE InfosLoop(filePaths, k + 1,
                         Append(acc, FileInfo(filePath, s.lines, s.size,
                                              TypeOf(filePath, isRemote), HostOf(isRemote, cfg))),
                         isRemote, cfg)

GetFileInfos(pattern, limit, isRemote, cfg) ==
    LET found == FilesByPattern(pattern, isRemote, cfg) IN
    IF found.err # "" THEN <<>>
    ELSE IF Len(found.paths) = 0 THEN <<>>
    ELSE InfosLoop(Truncate(found.paths, limit), 1, <<>>, isRemote, cfg)

-----------------------------------------------------------------------------
(* GetFileInfos on one pattern *)

ThePattern == <<"/", "*">>
PipePath == <<"/", "p">>
InfoPaths == { <<"/", "a">>, <<"/", "b">>, PipePath }

EmptyFile == [kind |-> "file", content |-> <<>>]
TextFile == [kind |-> "file", content |-> <<97, 10, 97>>]
GzipFile == [kind |-> "file", content |-> GzipHeader \o <<97, 10>>]
BinaryFile == [kind |-> "file", content |-> <<255, 10>>]
DeniedFile == [kind |-> "denied", content |-> <<97>>]
DirFile == [kind |-> "dir", content |-> <<>>]
LongLineFile == [kind |-> "longline", content |-> <<97>>]

FileStates == {EmptyFile, TextFile, GzipFile, BinaryFile, DeniedFile, DirFile, LongLineFile}

FileSystems ==
    { (<<"/", "a">> :> a) @@ (<<"/", "b">> :> b) @@ (PipePath :> p) :
        a \in FileStates, b \in FileStates, p \in {EmptyFile, TextFile} }

Listings == UNION { [1..n -> InfoPaths] : n \in 0..MaxFiles }

\* what ls prints for a list of paths: one path per line
RECURSIVE LsOutput(_)
LsOutput(paths) ==
    IF paths = <<>> THEN <<>> ELSE Head(paths) \o <<"\n">> \o LsOutput(Tail(paths))

Modes == {"glob", "walk", "globErr", "ls", "lsErr", "down"}

ModeWorld(mode, entries, files) ==
    [expand |-> (ThePattern :> [isDir |-> mode = "walk", err |-> mode = "globErr",
                                entries |-> entries]),
     file |-> files,
     keys |-> {TheKey},
     remote |-> (TheHost :> Remote(mode # "down",
                                   (ThePattern :> [err |-> mode = "lsErr", out |-> LsOutput(entries)]),
                                   files))]

InitInfos ==
    /\ ProcIdle
    /\ HOME = <<>>
    /\ ParseIdle
    /\ UniqueIdle
    /\ ProbeIdle
    /\ GlobalPipeTmpFilePath \in {<<>>, PipePath}
    /\ \E mode \in Modes, entries \in Listings, files \in FileSystems, limit \in 0..MaxLimit :
          /\ world = ModeWorld(mode, entries, files)
          /\ args = [pattern |-> ThePattern, limit |-> limit,
                     isRemote |-> mode \in {"ls", "lsErr", "down"},
                     sshConfig |-> IF mode \in {"ls", "lsErr", "down"} THEN TheSSH ELSE NoSSH]
    /\ result = <<>>
    /\ pc = "infos"

CallGetFileInfos ==
    /\ pc = "infos"
    /\ result' = GetFileInfos(args.pattern, args.limit, args.isRemote, args.sshConfig)
    /\ pc' = "returned"
    /\ UNCHANGED <<HOME, parseVars, uniqueVars, envVars, probeVars, args, procVars>>

NextInfos == CallGetFileInfos

SpecInfos == InitInfos /\ [][NextInfos]_vars

\* the candidates of the call, and those the limit lets through
Candidates ==
    LET found == FilesByPattern(args.pattern, args.isRemote, args.sshConfig) IN
    IF found.err # "" THEN <<>> ELSE found.paths

Least(a, b) == IF a <= b THEN a ELSE b

Survivors == SubSeq(Candidates, 1, Least(Len(Candidates), args.limit))

\* the file a candidate path names, on the side the call reads from
FileAt(path) ==
    LET files == IF args.isRemote THEN world.remote[args.sshConfig.Host].file ELSE world.file IN
    IF path \in DOMAIN files THEN files[path] ELSE [kind |-> "none", content |-> <<>>]

IsZeroByte(path) == FileAt(path) = EmptyFile
IsPlainFile(path) == FileAt(path) \in {EmptyFile, TextFile, GzipFile, BinaryFile}

ProbeOf(path) == IsReadableFile(path, args.isRemote, args.sshConfig, FALSE)

Returned(path) == \E i \in 1..Len(result) : result[i].FilePath = path

\* C4: GetFileInfos returns at most min(n, L) records for a pattern with n
\* candidates and a limit L >= 0, each for one of the first L candidates.
C4_LimitEnforced ==
    pc = "returned" =>
        /\ Len(result) <= Least(Len(Candidates), args.limit)
        /\ \A i \in 1..Len(result) :
              \E j \in 1..Least(Len(Candidates), args.limit) :
                  Candidates[j] = result[i].FilePath

C4_Witness ==
    /\ pc = "returned"
    /\ args.limit > 0
    /\ Len(Candidates) > args.limit
    /\ Len(result) = args.limit

\* C6: a zero-byte file is usable and empty: its probe returns (true, no
\* error), and a call of GetFileInfos that no probe error cuts short returns
\* it with LinesCount = 0 and FileSize = 0; the end of file met by FileStats
\* does not drop it.
C6_ZeroByteFileKept ==
    pc = "returned" =>
        \A k \in 1..Len(Survivors) :
            IsZeroByte(Survivors[k]) =>
                /\ ProbeOf(Survivors[k]).ok
                /\ ProbeOf(Survivors[k]).err = ""
                /\ (\A j \in 1..Len(Survivors) : ProbeOf(Survivors[j]).err = "") =>
                      \E i \in 1..Len(result) :
                          /\ result[i].FilePath = Survivors[k]
                          /\ result[i].LinesCount = 0
                          /\ result[i].FileSize = 0

C6_Witness ==
    /\ pc = "returned"
    /\ \E i \in 1..Len(result) :
          /\ IsZeroByte(result[i].FilePath)
          /\ result[i].LinesCount = 0
          /\ result[i].FileSize = 0
          /\ FileStats(result[i].FilePath, args.isRemote, args.sshConfig).err = "EOF"

\* C10: a probe that fails on one candidate drops that candidate only: every
\* candidate within the limit that is an ordinary readable file is returned,
\* whatever happens to the candidates before and after it.
C10_ProbeErrorDropsOneCandidate ==
    pc = "returned" =>
        \A k \in 1..Len(Survivors) : IsPlainFile(Survivors[k]) => Returned(Survivors[k])

\* what the code does: the readable candidates are returned when no
\* candidate within the limit fails its probe
C10_ReturnedWithoutProbeError ==
    (pc = "returned" /\ \A j \in 1..Len(Survivors) : ProbeOf(Survivors[j]).err = "") =>
        \A k \in 1..Len(Survivors) : IsPlainFile(Survivors[k]) => Returned(Survivors[k])

NoProbeError == \A j \in 1..Len(Survivors) : ProbeOf(Survivors[j]).err = ""

\* the leading bytes of a file, decompressed when the file is a gzip stream
LeadingBytes(file) ==
    IF IsGzip(file.content) /\ GzipOpens(file.content)
    THEN ReadUpTo(Gunzip(file.content), BufSize)
    ELSE ReadUpTo(file.content, BufSize)

IsNonText(path) == FileAt(path).kind = "file" /\ ~Utf8Valid(LeadingBytes(FileAt(path)))
IsText(path) == FileAt(path).kind = "file" /\ Utf8Valid(LeadingBytes(FileAt(path)))

\* C11: GetFileInfos skips non-text candidates: a candidate whose
\* (decompressed) leading bytes are not valid UTF-8 is not in the returned
\* list, while the text candidates of the pattern are returned (here: in the
\* calls that no probe error cuts short).
C11_NonTextSkipped ==
    pc = "returned" =>
        \A k \in 1..Len(Survivors) :
            /\ IsNonText(Survivors[k]) => ~Returned(Survivors[k])
            /\ (IsText(Survivors[k]) /\ NoProbeError) => Returned(Survivors[k])

\* what the code does: the probe is asked not to check the text, so a
\* non-text candidate is returned like any other readable file
C11_NonTextReturned ==
    (pc = "returned" /\ NoProbeError) =>
        \A k \in 1..Len(Survivors) : IsNonText(Survivors[k]) => Returned(Survivors[k])

\* the expansion of the call's pattern finds no file: locally the glob or the
\* walk yields no path, remotely the ls command succeeds and prints nothing
FindsNoFile ==
    IF args.isRemote
    THEN /\ NewSession(args.sshConfig) = ""
         /\ LET ls == world.remote[args.sshConfig.Host].ls[args.pattern] IN
            ~ls.err /\ ls.out = <<>>
    ELSE LET e == world.expand[args.pattern] IN
         /\ ~e.err
         /\ \A i \in 1..Len(e.entries) : e.isDir /\ IsDirEntry(e.entries[i])

\* the candidate paths the loop of GetFileInfos hands to IsReadableFile: the
\* survivors up to the first whose probe fails
ProbedPaths ==
    { Survivors[k] : k \in { n \in 1..Len(Survivors) :
                                \A j \in 1..(n - 1) : ProbeOf(Survivors[j]).err = "" } }

\* C12: a pattern that matches no file contributes nothing and costs nothing
\* further: when the expansion finds no file (for a remote pattern, when ls
\* prints nothing), GetFileInfos returns no record and probes no path.
C12_NoFileNoRecordNoProbe ==
    (pc = "returned" /\ FindsNoFile) => (result = <<>> /\ ProbedPaths = {})

\* what the code does: this holds for the local patterns, and for the remote
\* ones under a limit of zero
C12_NoFileLocalOrLimitZero ==
    (pc = "returned" /\ FindsNoFile /\ (~args.isRemote \/ args.limit = 0)) =>
        (result = <<>> /\ ProbedPaths = {})

\* and a remote listing that prints nothing yields one candidate, the empty
\* path, which is probed and returned as an empty file
C12_EmptyPathRecord ==
    (pc = "returned" /\ FindsNoFile /\ args.isRemote /\ args.limit > 0) =>
        /\ ProbedPaths = {<<>>}
        /\ Len(result) = 1
        /\ result[1].FilePath = <<>>
        /\ result[1].LinesCount = 0
        /\ result[1].FileSize = 0

\* C13: every record GetFileInfos returns is tagged consistently: Host is
\* non-empty only when Type is ssh, and is then the remote host; a record of
\* a remote source has Type ssh; Type stdin is given only to a local record
\* whose path equals GlobalPipeTmpFilePath; for every isRemote, candidate
\* path and GlobalPipeTmpFilePath, the empty one included.
C13_TagsConsistent ==
    pc = "returned" =>
        \A i \in 1..Len(result) :
            /\ result[i].Host # NoHost =>
                  (result[i].Type = TypeSSH /\ result[i].Host = args.sshConfig.Host)
            /\ result[i].Type = TypeSSH => result[i].Host = args.sshConfig.Host
            /\ args.isRemote => result[i].Type = TypeSSH
            /\ result[i].Type = TypeStdin =>
                  (~args.isRemote /\ result[i].FilePath = GlobalPipeTmpFilePath)

\* what the code does: the tags are consistent for the local calls, and for
\* the remote records whose path differs from GlobalPipeTmpFilePath
C13_TagsConsistentOffPipePath ==
    pc = "returned" =>
        \A i \in 1..Len(result) :
            (~args.isRemote \/ result[i].FilePath # GlobalPipeTmpFilePath) =>
                /\ result[i].Host # NoHost =>
                      (result[i].Type = TypeSSH /\ result[i].Host = args.sshConfig.Host)
                /\ args.isRemote => result[i].Type = TypeSSH
                /\ result[i].Type = TypeStdin =>
                      (~args.isRemote /\ result[i].FilePath = GlobalPipeTmpFilePath)

\* and a remote record whose path equals GlobalPipeTmpFilePath is typed
\* stdin while it keeps the remote host
C13_RemotePipePathIsStdinWithHost ==
    (pc = "returned" /\ args.isRemote) =>
        \A i \in 1..Len(result) :
            result[i].FilePath = GlobalPipeTmpFilePath =>
                (result[i].Type = TypeStdin /\ result[i].Host = args.sshConfig.Host)

-----------------------------------------------------------------------------
(* Start-up (main and setFilePaths, Gol.NewAPIHandler) and the Watcher *)

DefaultLimit == 1000
LibLimit == 1000

SSHConfigOf(c) ==
    [Host |-> c.Host, Port |-> c.Port, User |-> c.User,
     Password |-> c.Password, PrivateKeyPath |-> c.PrivateKeyPath]

\* the records of one remote spec: nothing when the spec does not parse
RemoteInfos(sshPath, limit) ==
    LET c == StringToSSHPathConfig(sshPath, HOME) IN
    IF c.err # "" THEN <<>> ELSE GetFileInfos(c.FilePath, limit, TRUE, SSHConfigOf(c))

RECURSIVE LocalInfosOf(_, _)
LocalInfosOf(filePaths, limit) ==
    IF filePaths = <<>> THEN <<>>
    ELSE GetFileInfos(Head(filePaths), limit, FALSE, NoSSH) \o LocalInfosOf(Tail(filePaths), limit)

RECURSIVE RemoteInfosOf(_, _)
RemoteInfosOf(sshPaths, limit) ==
    IF sshPaths = <<>> THEN <<>>
    ELSE RemoteInfos(Head(sshPaths), limit) \o RemoteInfosOf(Tail(sshPaths), limit)

\* the list UpdateGlobalFilePaths builds and then publishes: the records of
\* every local pattern and of every remote spec, deduplicated
UpdateGlobalFilePaths(filePaths, sshPaths, dockerPaths, limit) ==
    UniqueFileInfos(LocalInfosOf(filePaths, limit) \o RemoteInfosOf(sshPaths, limit))

\* the loop of setFilePaths over os.Args[1:]
RECURSIVE ArgsLoop(_, _)
ArgsLoop(argv, filePaths) ==
    IF argv = <<>> THEN filePaths
    ELSE IF Head(argv) = <<"&">> THEN ArgsLoop(Tail(argv), filePaths)
    ELSE IF HasPrefix(Head(argv), <<"-">>) THEN <<>>
    ELSE ArgsLoop(Tail(argv), Append(filePaths, Head(argv)))

\* f.filePaths after the first half of setFilePaths
FilePathsOfArgs(argv, flagPaths, pipePath) ==
    LET fromArgs == IF ArgsLoop(argv, <<>>) # <<>> THEN ArgsLoop(argv, <<>>) ELSE flagPaths
    IN IF pipePath # <<>> THEN Append(fromArgs, pipePath) ELSE fromArgs

Watchers == 1..MaxHandlers

Off == [state |-> "off", filePaths |-> <<>>, sshPaths |-> <<>>, limit |-> 0, staged |-> <<>>]
Waiting(filePaths, sshPaths, limit) ==
    [state |-> "waiting", filePaths |-> filePaths, sshPaths |-> sshPaths,
     limit |-> limit, staged |-> <<>>]

OtherHost == <<"g">>
OtherKey == <<"/", "n">>
Hosts == {TheHost, OtherHost}

UserAt(h) == <<"u", "@">> \o h

GoodSpec(h) == Join(<<UserAt(h), PrivateKeyPrefix \o TheKey, ThePattern>>, <<" ">>)
BadCredSpec(h) ==
    Join(<<UserAt(h), PasswordPrefix \o <<"n">>, PrivateKeyPrefix \o OtherKey, ThePattern>>, <<" ">>)
BadParseSpec == UserAt(TheHost)

SpecPool == {GoodSpec(TheHost), GoodSpec(OtherHost), BadCredSpec(OtherHost), BadParseSpec}
SpecLists == UNION { [1..n -> SpecPool] : n \in 0..MaxSpecs }

RemoteListing == << <<"/", "a">>, <<"/", "b">> >>

ProcWorld(otherState, bFile) ==
    LET files == (<<"/", "a">> :> TextFile) @@ (<<"/", "b">> :> bFile) @@ (PipePath :> TextFile)
        ls(err) == (ThePattern :> [err |-> err, out |-> LsOutput(RemoteListing)])
    IN [expand |-> (ThePattern :> [isDir |-> FALSE, err |-> FALSE, entries |-> RemoteListing])
                   @@ (PipePath :> [isDir |-> FALSE, err |-> FALSE, entries |-> <<PipePath>>]),
        file |-> files,
        keys |-> {TheKey, OtherKey},
        remote |-> (TheHost :> Remote(TRUE, ls(FALSE), files))
                   @@ (OtherHost :> Remote(otherState # "down", ls(otherState = "lsErr"), files))]

Flags(filePaths, sshPaths, limit) ==
    [filePaths |-> filePaths, sshPaths |-> sshPaths, limit |-> limit]

DashF == <<"-", "f">>

Init ==
    /\ HOME = <<"/", "r">>
    /\ ParseIdle
    /\ UniqueIdle
    /\ ProbeIdle
    /\ InfosIdle
    /\ pc = "run"
    /\ \E otherState \in {"up", "down", "lsErr"}, bFile \in {TextFile, DeniedFile} :
          world = ProcWorld(otherState, bFile)
    /\ entry \in {"main", "lib"}
    /\ IF entry = "main"
       THEN /\ GlobalPipeTmpFilePath \in {<<>>, PipePath}
            /\ \/ osArgs = <<>> /\ f = Flags(<<>>, <<>>, DefaultLimit)
               \/ osArgs \in {<<ThePattern>>, <<ThePattern, <<"&">>>>}
                    /\ f = Flags(<<>>, <<>>, DefaultLimit)
               \/ /\ osArgs = <<DashF>>
                  /\ \E filePaths \in {<<>>, <<ThePattern>>}, sshPaths \in SpecLists,
                        limit \in {1, DefaultLimit} :
                        f = Flags(filePaths, sshPaths, limit)
            /\ g = <<>>
            /\ pcCaller = "setFilePaths"
       ELSE /\ GlobalPipeTmpFilePath = <<>>
            /\ osArgs = <<>> /\ f = <<>>
            /\ g \in {[FilePaths |-> <<>>], [FilePaths |-> <<ThePattern>>]}
            /\ pcCaller = "NewAPIHandler"
    /\ GlobalFilePaths = <<>>
    /\ sshIdx = 0
    /\ staged = <<>>
    /\ calls = 0
    /\ watchers = [w \in Watchers |-> Off]
    /\ seen = <<>>
    /\ firstBuilt = FALSE

others == <<HOME, parseVars, uniqueVars, probeVars, infosVars, pc, entry, osArgs>>

\* setFilePaths, lines 98-124: the file paths of the command line and the pipe
SetFilePathsArgs ==
    /\ pcCaller = "setFilePaths"
    /\ f' = [f EXCEPT !.filePaths = FilePathsOfArgs(osArgs, f.filePaths, GlobalPipeTmpFilePath)]
    /\ pcCaller' = "ssh"
    /\ UNCHANGED <<others, firstBuilt, envVars, g, GlobalFilePaths, sshIdx, staged, calls, watchers, seen>>

\* setFilePaths, lines 127-148: one turn of the loop over f.sshPaths
SetFilePathsSSH ==
    /\ pcCaller = "ssh"
    /\ sshIdx < Len(f.sshPaths)
    /\ GlobalFilePaths' = GlobalFilePaths \o RemoteInfos(f.sshPaths[sshIdx + 1], f.limit)
    /\ sshIdx' = sshIdx + 1
    /\ UNCHANGED <<others, firstBuilt, envVars, f, g, pcCaller, staged, calls, watchers, seen>>

\* setFilePaths, line 151: UpdateGlobalFilePaths starts building
SetFilePathsUpdate ==
    /\ pcCaller = "ssh"
    /\ sshIdx = Len(f.sshPaths)
    /\ staged' = UpdateGlobalFilePaths(f.filePaths, f.sshPaths, <<>>, f.limit)
    /\ pcCaller' = "building"
    /\ UNCHANGED <<others, firstBuilt, envVars, f, g, GlobalFilePaths, sshIdx, calls, watchers, seen>>

\* Gol.NewAPIHandler, line 61: UpdateGlobalFilePaths starts building
NewAPIHandlerUpdate ==
    /\ pcCaller = "NewAPIHandler"
    /\ calls < MaxHandlers
    /\ staged' = UpdateGlobalFilePaths(g.FilePaths, <<>>, <<>>, LibLimit)
    /\ pcCaller' = "building"
    /\ UNCHANGED <<others, firstBuilt, envVars, f, g, GlobalFilePaths, sshIdx, calls, watchers, seen>>

\* UpdateGlobalFilePaths on the calling thread publishes its list and returns
CallerPublish ==
    /\ pcCaller = "building"
    /\ GlobalFilePaths' = staged
    /\ pcCaller' = "go"
    /\ firstBuilt' = TRUE
    /\ UNCHANGED <<others, envVars, f, g, sshIdx, staged, calls, watchers, seen>>

\* a variant of main that starts the Watcher and the server without the
\* first build
MainGoWatch_BeforeBuild ==
    /\ entry = "main"
    /\ pcCaller = "ssh"
    /\ sshIdx = Len(f.sshPaths)
    /\ watchers' = [watchers EXCEPT ![1] = Waiting(f.filePaths, f.sshPaths, f.limit)]
    /\ pcCaller' = "serve"
    /\ UNCHANGED <<others, firstBuilt, envVars, f, g, GlobalFilePaths, sshIdx, staged, calls, seen>>

\* main, line 49 and on: the Watcher is started, then the server
MainGoWatch ==
    /\ entry = "main"
    /\ pcCaller = "go"
    /\ watchers' = [watchers EXCEPT ![1] = Waiting(f.filePaths, f.sshPaths, f.limit)]
    /\ pcCaller' = "serve"
    /\ UNCHANGED <<others, firstBuilt, envVars, f, g, GlobalFilePaths, sshIdx, staged, calls, seen>>

\* Gol.NewAPIHandler, lines 62-63: a Watcher is started, the handler returned
NewAPIHandlerGoWatch ==
    /\ entry = "lib"
    /\ pcCaller = "go"
    /\ watchers' = [watchers EXCEPT ![calls + 1] = Waiting(g.FilePaths, <<>>, LibLimit)]
    /\ calls' = calls + 1
    /\ pcCaller' = "NewAPIHandler"
    /\ UNCHANGED <<others, firstBuilt, envVars, f, g, GlobalFilePaths, sshIdx, staged, seen>>

\* WatchFilePaths: a tick arrives while the goroutine waits for one, and
\* UpdateGlobalFilePaths starts building; a tick during a build is not taken
Tick(w) ==
    /\ watchers[w].state = "waiting"
    /\ watchers' = [watchers EXCEPT ![w] =
          [state |-> "building", filePaths |-> @.filePaths, sshPaths |-> @.sshPaths,
           limit |-> @.limit,
           staged |-> UpdateGlobalFilePaths(@.filePaths, @.sshPaths, <<>>, @.limit)]]
    /\ UNCHANGED <<others, firstBuilt, envVars, f, g, GlobalFilePaths, pcCaller, sshIdx, staged, calls, seen>>

\* WatchFilePaths: UpdateGlobalFilePaths publishes its list and returns
WatcherPublish(w) ==
    /\ watchers[w].state = "building"
    /\ GlobalFilePaths' = watchers[w].staged
    /\ watchers' = [watchers EXCEPT ![w] = Waiting(@.filePaths, @.sshPaths, @.limit)]
    /\ UNCHANGED <<others, firstBuilt, envVars, f, g, pcCaller, sshIdx, staged, calls, seen>>

Serving == (entry = "main" /\ pcCaller = "serve") \/ (entry = "lib" /\ calls >= 1)

\* the API handler reads the registry for a request
Request ==
    /\ Serving
    /\ seen' = GlobalFilePaths
    /\ UNCHANGED <<others, firstBuilt, envVars, f, g, GlobalFilePaths, pcCaller, sshIdx, staged, calls, watchers>>

\* a log file is written to or emptied between two builds
Touch ==
    /\ world' = [world EXCEPT !.file[<<"/", "a">>] = IF @ = TextFile THEN EmptyFile ELSE TextFile]
    /\ UNCHANGED <<others, firstBuilt, GlobalPipeTmpFilePath, f, g, GlobalFilePaths, pcCaller, sshIdx,
                   staged, calls, watchers, seen>>

Next ==
    \/ SetFilePathsArgs
    \/ SetFilePathsSSH
    \/ SetFilePathsUpdate
    \/ NewAPIHandlerUpdate
    \/ CallerPublish
    \/ MainGoWatch
    \/ NewAPIHandlerGoWatch
    \/ \E w \in Watchers : Tick(w)
    \/ \E w \in Watchers : WatcherPublish(w)
    \/ Request
    \/ Touch

Spec == Init /\ [][Next]_vars

\* the builds in flight: UpdateGlobalFilePaths entered and not yet returned
\* (0 is the thread of main or of the caller of NewAPIHandler)
InFlight ==
    (IF pcCaller = "building" THEN {0} ELSE {})
        \cup { w \in Watchers : watchers[w].state = "building" }

\* this step publishes the list a build in flight has completed
PublishesBuild ==
    \/ pcCaller = "building" /\ pcCaller' = "go" /\ GlobalFilePaths' = staged
    \/ \E w \in Watchers :
          /\ watchers[w].state = "building"
          /\ watchers'[w].state = "waiting"
          /\ GlobalFilePaths' = watchers[w].staged

\* C2: the published registry changes only by being replaced with the
\* complete list of a build; no step, at start-up or on a tick, appends to
\* the published list.
C2_OnlyWholeReplacement ==
    [][GlobalFilePaths' # GlobalFilePaths => PublishesBuild]_vars

\* what the code does: once setFilePaths has reached UpdateGlobalFilePaths,
\* every change of the registry is such a replacement
C2_WholeReplacementAfterSSHLoop ==
    [][(GlobalFilePaths' # GlobalFilePaths /\ pcCaller # "ssh") => PublishesBuild]_vars

\* C3: no two builds of the registry are in flight at the same time,
\* whatever the interleaving of ticks, of main's start-up and of the calls
\* of Gol.NewAPIHandler.
C3_BuildsNeverOverlap == Cardinality(InFlight) <= 1

\* what the code does: the builds of a process started by main do not overlap
C3_NoOverlapUnderMain == entry = "main" => Cardinality(InFlight) <= 1

\* what a remote spec of the command line is, read off the spec itself
SpecHost(s) ==
    IF s \in {GoodSpec(OtherHost), BadCredSpec(OtherHost)} THEN OtherHost ELSE TheHost

HostLists(h) == world.remote[h].up /\ ~world.remote[h].ls[ThePattern].err

\* the paths of the host's listing that the limit lets through
Listed1(limit) == SubSeq(RemoteListing, 1, Least(Len(RemoteListing), limit))

AllReadable(h, limit) ==
    \A k \in 1..Len(Listed1(limit)) :
        world.remote[h].file[Listed1(limit)[k]].kind = "file"

SpecFails(s) ==
    \/ s = BadParseSpec
    \/ \E h \in Hosts : s = BadCredSpec(h)
    \/ \E h \in Hosts : s = GoodSpec(h) /\ ~HostLists(h)

SpecSucceeds(s) ==
    \E h \in Hosts : s = GoodSpec(h) /\ HostLists(h) /\ AllReadable(h, f.limit)

StartupBuilt == entry = "main" /\ pcCaller \in {"go", "serve"}

HasRecord(path, h) ==
    \E i \in 1..Len(GlobalFilePaths) :
        /\ GlobalFilePaths[i].FilePath = path
        /\ GlobalFilePaths[i].Host = h
        /\ GlobalFilePaths[i].Type = TypeSSH

\* C5: when one remote spec of the start-up build fails to parse, connect,
\* authenticate or list, the registry after the build holds the records of
\* every other spec that succeeded and no record of the failing one.
C5_RemoteFailureIsolated ==
    StartupBuilt =>
        \A i \in 1..Len(f.sshPaths) :
            LET s == f.sshPaths[i] IN
            /\ (SpecSucceeds(s) /\ \E j \in 1..Len(f.sshPaths) : SpecFails(f.sshPaths[j])) =>
                  \A k \in 1..Len(Listed1(f.limit)) : HasRecord(Listed1(f.limit)[k], SpecHost(s))
            /\ (SpecFails(s) /\ \A j \in 1..Len(f.sshPaths) :
                                    SpecSucceeds(f.sshPaths[j]) => SpecHost(f.sshPaths[j]) # SpecHost(s)) =>
                  \A r \in 1..Len(GlobalFilePaths) : GlobalFilePaths[r].Host # SpecHost(s)

C5_Witness ==
    /\ entry = "main"
    /\ pcCaller = "serve"
    /\ \E i, j \in 1..Len(f.sshPaths) :
          /\ SpecSucceeds(f.sshPaths[i])
          /\ SpecFails(f.sshPaths[j])
          /\ SpecHost(f.sshPaths[i]) # SpecHost(f.sshPaths[j])
          /\ HasRecord(<<"/", "a">>, SpecHost(f.sshPaths[i]))
          /\ \A r \in 1..Len(GlobalFilePaths) : GlobalFilePaths[r].Host # SpecHost(f.sshPaths[j])

Started(w) == watchers[w].state # "off"

\* C14: in every start-up path (main, and Gol.NewAPIHandler) the first build
\* of the registry runs synchronously and its list is published before the
\* Watcher goroutine is started and before requests are answered: no Watcher
\* is started, no tick builds and no reader reads before the first build
\* has been published, and the first Watcher starts on the published list
\* of that build.
C14_FirstBuildBeforeWatcherAndServer ==
    /\ \A w \in Watchers : Started(w) => firstBuilt
    /\ Serving => firstBuilt
    /\ (firstBuilt /\ \A w \in Watchers : ~Started(w)) => GlobalFilePaths = staged
    /\ ~firstBuilt => seen = <<>>

C14_Witness ==
    /\ firstBuilt
    /\ Serving
    /\ GlobalFilePaths # <<>>
    /\ seen = GlobalFilePaths
    /\ \E w \in Watchers : watchers[w].state = "building"

-----------------------------------------------------------------------------
(* What the words of a remote spec say, read off the words themselves *)

CountOf(tok, ch) == Cardinality({ i \in 1..Len(tok) : tok[i] = ch })

FirstIndexOf(tok, ch) ==
    CHOOSE i \in 1..Len(tok) : tok[i] = ch /\ \A j \in 1..(i - 1) : tok[j] # ch

StartsWith(tok, p) == Len(tok) >= Len(p) /\ \A i \in 1..Len(p) : tok[i] = p[i]

IsPasswordToken(tok) == StartsWith(tok, PasswordPrefix)
IsKeyToken(tok) == ~IsPasswordToken(tok) /\ StartsWith(tok, PrivateKeyPrefix)
IsBareToken(tok) == ~StartsWith(tok, PasswordPrefix) /\ ~StartsWith(tok, PrivateKeyPrefix)

\* the positions after the first whose word satisfies P
After(P(_)) == { i \in 2..Len(tokens) : P(tokens[i]) }
LastOf(S) == CHOOSE i \in S : \A j \in S : j <= i

HostPart == Drop(tokens[1], FirstIndexOf(tokens[1], "@"))

WantUser == Take(tokens[1], FirstIndexOf(tokens[1], "@") - 1)
WantHost ==
    IF CountOf(HostPart, ":") = 0 THEN HostPart
    ELSE Take(HostPart, FirstIndexOf(HostPart, ":") - 1)
WantPort ==
    IF CountOf(HostPart, ":") = 0 THEN DefaultPort
    ELSE Drop(HostPart, FirstIndexOf(HostPart, ":"))
WantPassword ==
    IF After(IsPasswordToken) = {} THEN <<>>
    ELSE Drop(tokens[LastOf(After(IsPasswordToken))], Len(PasswordPrefix))
WantPrivateKeyPath ==
    IF After(IsKeyToken) = {} THEN HOME \o DefaultKeySuffix
    ELSE Drop(tokens[LastOf(After(IsKeyToken))], Len(PrivateKeyPrefix))
WantFilePath == tokens[LastOf(After(IsBareToken))]

TooFewTokens == Len(tokens) < 2
NotOneAt == CountOf(tokens[1], "@") # 1

\* C7 (as stated): StringToSSHPathConfig fails exactly when the input has
\* fewer than two words or its first word does not hold exactly one '@';
\* every other input is accepted.
C7_ErrorOnlyForTokensOrAt ==
    pc = "parsed" => ((config.err # "") <=> (TooFewTokens \/ NotOneAt))

\* C7 (amended): StringToSSHPathConfig fails exactly when the input has fewer
\* than two words, or its first word does not hold exactly one '@', or no
\* word after the first is free of the password= and private_key= prefixes
\* (the file path is missing); every other input is accepted with a path.
C7_ErrorAlsoForMissingPath ==
    pc = "parsed" =>
        /\ (config.err # "") <=>
               (TooFewTokens \/ NotOneAt \/ After(IsBareToken) = {})
        /\ config.err = "" => config.FilePath # <<>>

C7_Witness ==
    /\ pc = "parsed"
    /\ config.err = "nopath"
    /\ ~TooFewTokens
    /\ ~NotOneAt

\* C8: an accepted remote spec yields User and Host from the two sides of
\* '@', Port the text after ':' of the host part ("22" when there is no
\* port), Password the value of the password= word (empty if none),
\* PrivateKeyPath the value of the private_key= word (<HOME>/.ssh/id_rsa if
\* none) and FilePath the last word with neither prefix, in any word order.
C8_FieldsOfAcceptedSpec ==
    (pc = "parsed" /\ config.err = "") =>
        /\ config.User = WantUser
        /\ config.Host = WantHost
        /\ config.Port = WantPort
        /\ config.Password = WantPassword
        /\ config.PrivateKeyPath = WantPrivateKeyPath
        /\ config.FilePath = WantFilePath

\* the same with the port left out of the comparison when the host part
\* holds more than one ':'
C8_FieldsExceptManyColons ==
    (pc = "parsed" /\ config.err = "") =>
        /\ config.User = WantUser
        /\ config.Host = WantHost
        /\ CountOf(HostPart, ":") <= 1 => config.Port = WantPort
        /\ config.Password = WantPassword
        /\ config.PrivateKeyPath = WantPrivateKeyPath
        /\ config.FilePath = WantFilePath

====
